---- MODULE Spec2Model ----
(***************************************************************************)
(* Model of the jumbled-input jsPsych plugin                               *)
(* (src/packages/plugin-jumbled-input/src/index.ts).                       *)
(*                                                                         *)
(* A JavaScript string is a sequence of one-character TLA+ strings, so     *)
(* that e.key.length, slice(-1), slice(0,-1) and += are computed as the    *)
(* code computes them.  A JavaScript value read out of the author's        *)
(* character_mapping object is a record [type, s]: s is the string itself  *)
(* for a string and the result of ToString for any other value.            *)
(* Time is counted in ticks, TicksPerMs ticks to the millisecond, so that  *)
(* Math.round has something to round.                                      *)
(***************************************************************************)
EXTENDS Integers, Sequences, FiniteSets, TLC

VARIABLES
    trial,                \* the trial parameters: character_mapping, require_response
    start_time,           \* const start_time = performance.now()
    raw_input,            \* let raw_input = ""
    display_input,        \* let display_input = ""
    keystroke_log,        \* let keystroke_log = []
    last_action_time,     \* let last_action_time = start_time
    next_button_disabled, \* next_button.disabled
    textbox_value,        \* textbox.value
    finish_calls,         \* the number of calls of jsPsych.finishTrial
    uncaught,             \* TRUE once a handler has thrown
    clock,                \* the latest reading of performance.now(), in ticks
    last_event            \* the event dispatched last; for a click, with the
                          \* trial_data its handler passed to finishTrial (history)

vars == <<trial, start_time, raw_input, display_input, keystroke_log,
          last_action_time, next_button_disabled, textbox_value, finish_calls,
          uncaught, clock, last_event>>

----------------------------------------------------------------------------
(* Bounds of the model *)

\* the longest keystroke_log explored
MaxLog == 3
\* the reading of performance.now() at the start of the trial, in ticks
FirstReading == 1
\* the latest clock reading explored, in ticks
MaxClock == 2
\* the number of clicks on the submit control explored
MaxSubmits == 2
\* clock resolution: ticks per millisecond
TicksPerMs == 2

----------------------------------------------------------------------------
(* JavaScript values and strings *)

Str(s) == [type |-> "string", s |-> s]
Num(s) == [type |-> "number", s |-> s]
Undefined == [type |-> "undefined", s |-> <<"u","n","d","e","f","i","n","e","d">>]

\* ToBoolean: "" and undefined are falsy, every other string is truthy;
\* the number 0 is falsy
Truthy(v) ==
    CASE v.type = "string" -> v.s # <<>>
      [] v.type = "number" -> v.s # <<"0">>
      [] OTHER -> FALSE

LowerLetters == <<"a", "e", "n", "r", "t", "x", "y", "z">>
UpperLetters == <<"A", "E", "N", "R", "T", "X", "Y", "Z">>

IndexIn(c, letters) ==
    IF \E i \in 1..Len(letters) : letters[i] = c
    THEN CHOOSE i \in 1..Len(letters) : letters[i] = c
    ELSE 0

\* String.prototype.toLowerCase / toUpperCase on one character of the alphabet
LowerChar(c) ==
    IF IndexIn(c, UpperLetters) > 0 THEN LowerLetters[IndexIn(c, UpperLetters)] ELSE c

UpperChar(c) ==
    IF IndexIn(c, LowerLetters) > 0 THEN UpperLetters[IndexIn(c, LowerLetters)] ELSE c

toLowerCase(s) == [i \in 1..Len(s) |-> LowerChar(s[i])]
toUpperCase(s) == [i \in 1..Len(s) |-> UpperChar(s[i])]

\* s.slice(-1): the last character, or "" when s is empty
SliceLast(s) == IF Len(s) = 0 THEN <<>> ELSE <<s[Len(s)]>>
\* s.slice(0, -1): all but the last character, or "" when s is empty
SliceInit(s) == IF Len(s) = 0 THEN <<>> ELSE SubSeq(s, 1, Len(s) - 1)

\* Math.round of a duration of d ticks, in milliseconds (halves round up)
MathRound(d) == (2 * d + TicksPerMs) \div (2 * TicksPerMs)

\* obj[key]: the own property, or undefined
Lookup(mapping, key) == IF key \in DOMAIN mapping THEN mapping[key] ELSE Undefined

----------------------------------------------------------------------------
(* The events the browser can dispatch *)

EnterKey == <<"E", "n", "t", "e", "r">>
BackspaceKey == <<"B", "a", "c", "k", "s", "p", "a", "c", "e">>
DeadKey == <<"D", "e", "a", "d">>
TabKey == <<"T", "a", "b">>

KeyEvents ==
    { [type |-> "keydown", key |-> <<"a">>, code |-> "KeyA"],
      [type |-> "keydown", key |-> <<"A">>, code |-> "KeyA"],
      [type |-> "keydown", key |-> <<"=">>, code |-> "Equal"],
      [type |-> "keydown", key |-> DeadKey, code |-> "BracketLeft"],
      [type |-> "keydown", key |-> EnterKey, code |-> "Enter"],
      [type |-> "keydown", key |-> BackspaceKey, code |-> "Backspace"],
      [type |-> "keydown", key |-> TabKey, code |-> "Tab"] }

\* clipboard contents of a paste, and field contents an input event can find
Clipboards == { <<"z">> }
FieldEdits == { <<"z">> }

NoEvent == [type |-> "none"]

----------------------------------------------------------------------------
(* The trial parameters *)

MappingKeys == { <<"a">>, <<"A">> }
MappingStrings == { <<>>, <<"x">>, <<"x", "y">> }

\* every string -> string table over MappingKeys
StringMappings ==
    UNION { [D -> { Str(s) : s \in MappingStrings }] : D \in SUBSET MappingKeys }

\* values an unvalidated table can hold: a string and a number
MalformedValues == { Str(<<"x">>), Num(<<"7">>) }

\* every table over MappingKeys with such values (character_mapping is a
\* ParameterType.OBJECT, its values are not validated)
AnyMappings ==
    UNION { [D -> MalformedValues] : D \in SUBSET MappingKeys }

----------------------------------------------------------------------------
(* keydown handler: mapping resolution, index.ts lines 162-176 *)

\* the outcome of a resolution that raises a TypeError
Throws == [type |-> "throw", s |-> <<>>]

\* mutant: the exact probe is skipped, the table is read by the lower-cased key
MappedChar_NoExactProbe(mapping, key) ==
    IF key = EnterKey THEN Str(<<"\n">>)
    ELSE IF Truthy(Lookup(mapping, toLowerCase(key))) THEN
        LET lowercase_mapping == Lookup(mapping, toLowerCase(key)) IN
        IF key = toUpperCase(key)
        THEN IF lowercase_mapping.type = "string"
             THEN Str(toUpperCase(lowercase_mapping.s))
             ELSE Throws
        ELSE lowercase_mapping
    ELSE Str(key)

MappedChar(mapping, key) ==
    IF key = EnterKey THEN Str(<<"\n">>)
    ELSE IF Truthy(Lookup(mapping, key)) THEN Lookup(mapping, key)
    ELSE IF Truthy(Lookup(mapping, toLowerCase(key))) THEN
        LET lowercase_mapping == Lookup(mapping, toLowerCase(key)) IN
        IF key = toUpperCase(key)
        THEN IF lowercase_mapping.type = "string"
             THEN Str(toUpperCase(lowercase_mapping.s))
             ELSE Throws      \* TypeError: toUpperCase is not a function
        ELSE lowercase_mapping
    ELSE Str(key)

----------------------------------------------------------------------------
(* Initial state: trial(), index.ts lines 72-142 *)

\* mutant: the submit control starts disabled whatever require_response is
InitWith_StartsDisabled(mappings) ==
    /\ trial \in [character_mapping : mappings, require_response : BOOLEAN]
    /\ start_time = FirstReading
    /\ clock = start_time
    /\ raw_input = <<>>
    /\ display_input = <<>>
    /\ keystroke_log = <<>>
    /\ last_action_time = start_time
    /\ next_button_disabled = TRUE
    /\ textbox_value = <<>>
    /\ finish_calls = 0
    /\ uncaught = FALSE
    /\ last_event = NoEvent

InitWith(mappings) ==
    /\ trial \in [character_mapping : mappings, require_response : BOOLEAN]
    /\ start_time = FirstReading
    /\ clock = start_time
    /\ raw_input = <<>>
    /\ display_input = <<>>
    /\ keystroke_log = <<>>
    /\ last_action_time = start_time
    /\ next_button_disabled = trial.require_response
    /\ textbox_value = <<>>
    /\ finish_calls = 0
    /\ uncaught = FALSE
    /\ last_event = NoEvent

Init == InitWith(StringMappings)

----------------------------------------------------------------------------
(* keydown handler, index.ts lines 144-228 *)

\* mutant: the control is enabled once and never disabled again
SubmitEligibility_NeverDisables(require_response, display, disabled) ==
    IF require_response /\ Len(display) > 0 THEN FALSE ELSE disabled

\* lines 196-198 and 223-225: if (trial.require_response)
\*     next_button.disabled = display_input.length === 0
SubmitEligibility(require_response, display, disabled) ==
    IF require_response THEN Len(display) = 0 ELSE disabled

\* mutant: only the dead-key marker is filtered
Suppressed_OnlyDead(e) == e.key = DeadKey

\* lines 147-150: the pre-filter
Suppressed(e) == e.key = DeadKey \/ e.code = "Equal"

\* line 152: the printable-character branch is taken
Printable(e) == ~Suppressed(e) /\ (Len(e.key) = 1 \/ e.key = EnterKey)

\* line 199: the Backspace branch is taken
IsBackspace(e) == ~Suppressed(e) /\ ~Printable(e) /\ e.key = BackspaceKey

\* lines 187-192
KeypressEntry(elapsed, typed_char, mapped_char) ==
    [rt |-> MathRound(elapsed), action |-> "keypress",
     typed_char |-> typed_char, mapped_char |-> mapped_char]

\* lines 214-219
BackspaceEntry(elapsed, deleted_raw_char, deleted_display_char) ==
    [rt |-> MathRound(elapsed), action |-> "backspace",
     deleted_raw_char |-> deleted_raw_char,
     deleted_display_char |-> deleted_display_char]

\* lines 159-198
Keypress(e, now) ==
    LET typed_char == e.key
        mapped_char == MappedChar(trial.character_mapping, typed_char)
    IN  IF mapped_char = Throws
        THEN /\ uncaught' = TRUE
             /\ UNCHANGED <<raw_input, display_input, textbox_value, keystroke_log,
                            last_action_time, next_button_disabled, clock>>
        ELSE /\ raw_input' = raw_input \o typed_char
             /\ display_input' = display_input \o mapped_char.s
             /\ textbox_value' = display_input'
             /\ keystroke_log' = Append(keystroke_log,
                    KeypressEntry(now - last_action_time, typed_char, mapped_char))
             /\ last_action_time' = now
             /\ clock' = now
             /\ next_button_disabled' =
                    SubmitEligibility(trial.require_response, display_input',
                                      next_button_disabled)
             /\ UNCHANGED uncaught

\* mutant: a backspace does not restart the measurement of elapsed time
Backspace_KeepsTime(now) ==
    IF Len(raw_input) > 0
    THEN /\ raw_input' = SliceInit(raw_input)
         /\ display_input' = SliceInit(display_input)
         /\ textbox_value' = display_input'
         /\ keystroke_log' = Append(keystroke_log,
                BackspaceEntry(now - last_action_time, SliceLast(raw_input),
                               SliceLast(display_input)))
         /\ clock' = now
         /\ next_button_disabled' =
                SubmitEligibility(trial.require_response, display_input',
                                  next_button_disabled)
         /\ UNCHANGED <<uncaught, last_action_time>>
    ELSE UNCHANGED <<raw_input, display_input, textbox_value, keystroke_log,
                     last_action_time, next_button_disabled, clock, uncaught>>

\* mutant: the guard raw_input.length > 0 is missing
Backspace_Unguarded(now) ==
    /\ raw_input' = SliceInit(raw_input)
    /\ display_input' = SliceInit(display_input)
    /\ textbox_value' = display_input'
    /\ keystroke_log' = Append(keystroke_log,
           BackspaceEntry(now - last_action_time, SliceLast(raw_input),
                          SliceLast(display_input)))
    /\ last_action_time' = now
    /\ clock' = now
    /\ next_button_disabled' =
           SubmitEligibility(trial.require_response, display_input',
                             next_button_disabled)
    /\ UNCHANGED uncaught

\* mutant: a backspace removes the log entry of the keypress it undoes
Backspace_PopsLog(now) ==
    IF Len(raw_input) > 0
    THEN /\ raw_input' = SliceInit(raw_input)
         /\ display_input' = SliceInit(display_input)
         /\ textbox_value' = display_input'
         /\ keystroke_log' = SubSeq(keystroke_log, 1, Len(keystroke_log) - 1)
         /\ last_action_time' = now
         /\ clock' = now
         /\ next_button_disabled' =
                SubmitEligibility(trial.require_response, display_input',
                                  next_button_disabled)
         /\ UNCHANGED uncaught
    ELSE UNCHANGED <<raw_input, display_input, textbox_value, keystroke_log,
                     last_action_time, next_button_disabled, clock, uncaught>>

\* lines 202-226
Backspace(now) ==
    IF Len(raw_input) > 0
    THEN LET deleted_raw_char == SliceLast(raw_input)
             deleted_display_char == SliceLast(display_input)
         IN  /\ raw_input' = SliceInit(raw_input)
             /\ display_input' = SliceInit(display_input)
             /\ textbox_value' = display_input'
             /\ keystroke_log' = Append(keystroke_log,
                    BackspaceEntry(now - last_action_time, deleted_raw_char,
                                   deleted_display_char))
             /\ last_action_time' = now
             /\ clock' = now
             /\ next_button_disabled' =
                    SubmitEligibility(trial.require_response, display_input',
                                      next_button_disabled)
             /\ UNCHANGED uncaught
    ELSE UNCHANGED <<raw_input, display_input, textbox_value, keystroke_log,
                     last_action_time, next_button_disabled, clock, uncaught>>

\* the event appends to keystroke_log (used to bound the exploration)
Logs(e) ==
    \/ Printable(e) /\ MappedChar(trial.character_mapping, e.key) # Throws
    \/ IsBackspace(e) /\ Len(raw_input) > 0

KeyDown(e, now) ==
    /\ Logs(e) => Len(keystroke_log) < MaxLog
    /\ last_event' = e
    /\ IF Suppressed(e)
       THEN UNCHANGED <<raw_input, display_input, textbox_value, keystroke_log,
                        last_action_time, next_button_disabled, clock, uncaught>>
       ELSE IF Printable(e) THEN Keypress(e, now)
       ELSE IF IsBackspace(e) THEN Backspace(now)
       ELSE UNCHANGED <<raw_input, display_input, textbox_value, keystroke_log,
                        last_action_time, next_button_disabled, clock, uncaught>>
    /\ UNCHANGED <<trial, start_time, finish_calls>>

----------------------------------------------------------------------------
(* paste handler, index.ts lines 231-233: e.preventDefault() and nothing else *)

\* mutant: the default action is not prevented and the text is taken in
PasteHandler_Inserts(clip) ==
    /\ raw_input' = raw_input \o clip
    /\ display_input' = display_input \o clip
    /\ textbox_value' = display_input'
    /\ UNCHANGED <<keystroke_log, last_action_time, next_button_disabled, clock,
                   uncaught>>

PasteHandler(clip) ==
    UNCHANGED <<raw_input, display_input, textbox_value, keystroke_log,
                last_action_time, next_button_disabled, clock, uncaught>>

Paste(clip) ==
    /\ last_event' = [type |-> "paste"]
    /\ PasteHandler(clip)
    /\ UNCHANGED <<trial, start_time, finish_calls>>

----------------------------------------------------------------------------
(* input handler, index.ts lines 235-241.  The event is dispatched after   *)
(* something other than the handlers has written `value` into the field.   *)

\* mutant: the handler leaves the field as it finds it
Input_NoReset(value) ==
    /\ last_event' = [type |-> "input", value |-> value]
    /\ textbox_value' = value
    /\ UNCHANGED <<raw_input, display_input, keystroke_log, last_action_time,
                   next_button_disabled, clock, uncaught>>
    /\ UNCHANGED <<trial, start_time, finish_calls>>

Input(value) ==
    /\ last_event' = [type |-> "input", value |-> value]
    /\ textbox_value' = IF value # display_input THEN display_input ELSE value
    /\ UNCHANGED <<raw_input, display_input, keystroke_log, last_action_time,
                   next_button_disabled, clock, uncaught>>
    /\ UNCHANGED <<trial, start_time, finish_calls>>

----------------------------------------------------------------------------
(* click on the submit control: end_trial, index.ts lines 244-259.         *)
(* A disabled button dispatches no click event.  The listeners are never   *)
(* removed and end_trial keeps no flag, so events are handled for as long  *)
(* as the host leaves the elements in place.                               *)

\* mutant: rt is measured from the last logged action, not from the trial start
TrialData_SinceLastAction(now) ==
    [response |-> display_input, raw_input |-> raw_input,
     log |-> keystroke_log, rt |-> MathRound(now - last_action_time)]

\* mutant: the raw text is reported as the response
TrialData_RawAsResponse(now) ==
    [response |-> raw_input, raw_input |-> raw_input,
     log |-> keystroke_log, rt |-> MathRound(now - start_time)]

TrialData(now) ==
    [response |-> display_input, raw_input |-> raw_input,
     log |-> keystroke_log, rt |-> MathRound(now - start_time)]

end_trial(now) ==
    /\ finish_calls' = finish_calls + 1
    /\ last_event' = [type |-> "click", trial_data |-> TrialData(now)]
    /\ clock' = now

Click(now) ==
    /\ ~next_button_disabled
    /\ finish_calls < MaxSubmits
    /\ end_trial(now)
    /\ UNCHANGED <<trial, start_time, raw_input, display_input, textbox_value,
                   keystroke_log, last_action_time, next_button_disabled, uncaught>>

----------------------------------------------------------------------------

\* performance.now() never runs backwards
Readings == clock..MaxClock

Next ==
    \/ \E e \in KeyEvents, now \in Readings : KeyDown(e, now)
    \/ \E clip \in Clipboards : Paste(clip)
    \/ \E value \in FieldEdits \cup {display_input} : Input(value)
    \/ \E now \in Readings : Click(now)

Spec == Init /\ [][Next]_vars

\* the trial under a table whose values need not be strings
InitMalformed == InitWith(AnyMappings)

SpecMalformed == InitMalformed /\ [][Next]_vars

----------------------------------------------------------------------------
(* Helpers of the properties *)

EndsWith(s, suffix) ==
    /\ Len(s) >= Len(suffix)
    /\ SubSeq(s, Len(s) - Len(suffix) + 1, Len(s)) = suffix

IsPrefix(s, t) == Len(s) <= Len(t) /\ SubSeq(t, 1, Len(s)) = s

Last(s) == s[Len(s)]

BackspaceEvent == [type |-> "keydown", key |-> BackspaceKey, code |-> "Backspace"]

\* the step dispatches a keydown that takes the printable-character branch
KeypressStep == last_event'.type = "keydown" /\ Printable(last_event') /\ vars' # vars

\* the step dispatches a Backspace keydown
BackspaceStep == last_event' = BackspaceEvent

\* an upper-case letter
IsUpperCase(key) == key = toUpperCase(key) /\ key # toLowerCase(key)

----------------------------------------------------------------------------
(* Properties *)

\* C1: in every reachable state the length of raw_input equals the length of
\* display_input.
C1_LengthsEqual == Len(raw_input) = Len(display_input)

\* C2: when character_mapping has no entries, display_input equals raw_input
\* in every reachable state.
C2_NoMappingIdentity ==
    DOMAIN trial.character_mapping = {} => display_input = raw_input

\* C3: immediately after the keypress of a character c that is a key of
\* character_mapping, raw_input ends with c and display_input ends with
\* mapping[c].
C3_MappedKeypress ==
    ( /\ last_event.type = "keydown"
      /\ Printable(last_event)
      /\ Len(last_event.key) = 1
      /\ last_event.key \in DOMAIN trial.character_mapping )
    => /\ EndsWith(raw_input, last_event.key)
       /\ EndsWith(display_input, trial.character_mapping[last_event.key].s)

\* C3 witness: "A" was typed under a table that maps "A" to "x" and "a" to "xy"
C3_Witness ==
    /\ last_event.type = "keydown"
    /\ last_event.key = <<"A">>
    /\ DOMAIN trial.character_mapping = { <<"a">>, <<"A">> }
    /\ trial.character_mapping[<<"A">>] = Str(<<"x">>)
    /\ trial.character_mapping[<<"a">>] = Str(<<"x", "y">>)
    /\ raw_input = <<"a", "A">>
    /\ display_input = <<"x", "y", "x">>

\* C4: a keypress of an upper-case character that is absent from
\* character_mapping while its lower-cased form is present appends the
\* upper-cased mapped value to display_input; a keypress of a character with
\* neither form present appends the typed character unchanged.
C4_CaseFallback ==
    [][ LET key == last_event'.key
            mapping == trial.character_mapping
        IN  (KeypressStep /\ Len(key) = 1) =>
            /\ ( /\ IsUpperCase(key)
                 /\ key \notin DOMAIN mapping
                 /\ toLowerCase(key) \in DOMAIN mapping )
               => display_input' =
                      display_input \o toUpperCase(mapping[toLowerCase(key)].s)
            /\ ( /\ key \notin DOMAIN mapping
                 /\ toLowerCase(key) \notin DOMAIN mapping )
               => display_input' = display_input \o key
      ]_vars

\* C5: a backspace on non-empty raw_input removes exactly the last character
\* of raw_input and exactly the last character of display_input and appends
\* one "backspace" log entry that holds the two removed characters.
C5_BackspaceRemovesOne ==
    [][ (BackspaceStep /\ Len(raw_input) > 0) =>
        /\ Len(raw_input') = Len(raw_input) - 1
        /\ raw_input' = SubSeq(raw_input, 1, Len(raw_input) - 1)
        /\ Len(keystroke_log') = Len(keystroke_log) + 1
        /\ IsPrefix(keystroke_log, keystroke_log')
        /\ Last(keystroke_log').action = "backspace"
        /\ Last(keystroke_log').deleted_raw_char = <<Last(raw_input)>>
        /\ Len(display_input) > 0
        /\ display_input' = SubSeq(display_input, 1, Len(display_input) - 1)
        /\ Last(keystroke_log').deleted_display_char = <<Last(display_input)>>
      ]_vars

\* C6: a backspace on empty raw_input leaves raw_input, display_input,
\* keystroke_log, last_action_time and the submit control's status unchanged.
C6_BackspaceOnEmpty ==
    [][ (BackspaceStep /\ raw_input = <<>>) =>
        UNCHANGED <<raw_input, display_input, keystroke_log, last_action_time,
                    next_button_disabled>>
      ]_vars

\* C6 witness: a backspace was dispatched before anything was typed
C6_Witness ==
    /\ last_event = BackspaceEvent
    /\ raw_input = <<>>
    /\ keystroke_log = <<>>
    /\ last_action_time = start_time

\* C7: when require_response is true the submit control is disabled exactly
\* when display_input is empty, in every reachable state, and a click is
\* never handled with the control disabled (a click leaves the control's
\* status as it found it).
C7_SubmitGate ==
    trial.require_response =>
        /\ next_button_disabled <=> (display_input = <<>>)
        /\ last_event.type = "click" => ~next_button_disabled

\* C7 witness: text was typed and deleted again, and the control is disabled
C7_Witness ==
    /\ trial.require_response
    /\ Len(keystroke_log) >= 2
    /\ Last(keystroke_log).action = "backspace"
    /\ display_input = <<>>
    /\ next_button_disabled

\* C8: a paste event leaves raw_input, display_input, keystroke_log and
\* last_action_time unchanged.
C8_PasteChangesNothing ==
    [][ last_event'.type = "paste" =>
        UNCHANGED <<raw_input, display_input, keystroke_log, last_action_time>>
      ]_vars

\* C8 witness: a paste was dispatched on a field that holds typed text
C8_Witness ==
    /\ last_event.type = "paste"
    /\ raw_input # <<>>
    /\ textbox_value = display_input

\* C9: keystroke_log is append-only: every step keeps the previous log as a
\* prefix; a keypress and a backspace on non-empty input append exactly one
\* entry, of their own action, and no other event appends one.
C9_LogAppendOnly ==
    [][ /\ IsPrefix(keystroke_log, keystroke_log')
        /\ IF KeypressStep
           THEN /\ Len(keystroke_log') = Len(keystroke_log) + 1
                /\ Last(keystroke_log').action = "keypress"
           ELSE IF BackspaceStep /\ Len(raw_input) > 0
           THEN /\ Len(keystroke_log') = Len(keystroke_log) + 1
                /\ Last(keystroke_log').action = "backspace"
           ELSE keystroke_log' = keystroke_log
      ]_vars

\* C9 witness: the log holds a keypress, its backspace and a later keypress
C9_Witness ==
    /\ Len(keystroke_log) = 3
    /\ keystroke_log[1].action = "keypress"
    /\ keystroke_log[2].action = "backspace"
    /\ keystroke_log[3].action = "keypress"
    /\ Len(raw_input) = 1

\* C10: finishTrial is invoked at most once per trial.
C10_FinishAtMostOnce == finish_calls <= 1

\* C11: after the first submission no event changes raw_input, display_input
\* or keystroke_log.
C11_FrozenAfterSubmit ==
    [][ finish_calls >= 1 =>
        UNCHANGED <<raw_input, display_input, keystroke_log>> ]_vars

\* the actions of the log entries, in order
Actions(log) == [i \in 1..Len(log) |-> log[i].action]

\* C12: the record passed to finishTrial carries the state as it is at the
\* click: response is display_input, raw_input is raw_input, log is
\* keystroke_log.  On the alphabet of the model: the table a -> x, A -> xy
\* with keys a, A gives response "xxy", raw_input "aA" and two keypress
\* entries; the empty table with keys a, A, Backspace gives response "a",
\* raw_input "a" and the actions keypress, keypress, backspace.
C12_ResultCarriesState ==
    last_event.type = "click" =>
        LET data == last_event.trial_data
            mapping == trial.character_mapping
            typed == [i \in 1..Len(keystroke_log) |->
                        IF keystroke_log[i].action = "keypress"
                        THEN keystroke_log[i].typed_char ELSE BackspaceKey]
        IN  /\ data.response = display_input
            /\ data.raw_input = raw_input
            /\ data.log = keystroke_log
            /\ ( /\ DOMAIN mapping = { <<"a">>, <<"A">> }
                 /\ mapping[<<"a">>] = Str(<<"x">>)
                 /\ mapping[<<"A">>] = Str(<<"x", "y">>)
                 /\ typed = << <<"a">>, <<"A">> >> )
               => /\ data.response = <<"x", "x", "y">>
                  /\ data.raw_input = <<"a", "A">>
                  /\ Actions(data.log) = <<"keypress", "keypress">>
            /\ ( /\ DOMAIN mapping = {}
                 /\ typed = << <<"a">>, <<"A">>, BackspaceKey >> )
               => /\ data.response = <<"a">>
                  /\ data.raw_input = <<"a">>
                  /\ Actions(data.log) = <<"keypress", "keypress", "backspace">>

\* C12 witness: the empty table, keys a, A, Backspace, then a click
C12_Witness ==
    /\ last_event.type = "click"
    /\ DOMAIN trial.character_mapping = {}
    /\ Actions(keystroke_log) = <<"keypress", "keypress", "backspace">>
    /\ last_event.trial_data.response = <<"a">>
    /\ last_event.trial_data.raw_input = <<"a">>

\* C13 as stated: the emitted rt equals the clock reading at the click minus
\* the reading at trial start (rt is in milliseconds, the readings in ticks).
C13_RtIsExactDifference ==
    last_event.type = "click" =>
        last_event.trial_data.rt * TicksPerMs = clock - start_time

\* C13 as amended: the emitted rt is the clock reading at the click minus the
\* reading taken at trial start, rounded to the nearest millisecond; it is
\* non-negative, and start_time keeps the value it was given at trial start.
C13_RtIsRoundedDifference ==
    /\ start_time = FirstReading
    /\ last_event.type = "click" =>
        /\ last_event.trial_data.rt = MathRound(clock - start_time)
        /\ last_event.trial_data.rt >= 0

\* C13 witness: a click half a millisecond after a logged action that itself
\* came after the trial start, reported as 1 ms
C13_Witness ==
    /\ last_event.type = "click"
    /\ keystroke_log # <<>>
    /\ clock > start_time
    /\ last_event.trial_data.rt = 1

\* C14: no keypress raises an error out of the handler, whatever the values
\* of character_mapping are.
C14_NoHandlerThrows == ~uncaught

RECURSIVE Replay(_, _)
\* the mapped values of the characters of raw, in order, concatenated
Replay(mapping, raw) ==
    IF raw = <<>> THEN <<>>
    ELSE MappedChar(mapping, <<Head(raw)>>).s \o Replay(mapping, Tail(raw))

\* C15: in every reachable state display_input is the replay of raw_input
\* through the mapping resolution, and only keypress and backspace steps
\* change display_input.
C15_DisplayIsReplay ==
    [][ /\ display_input = Replay(trial.character_mapping, raw_input)
        /\ display_input' = Replay(trial.character_mapping, raw_input')
        /\ display_input' # display_input =>
              (KeypressStep \/ BackspaceStep) ]_vars

\* the step appends an entry to keystroke_log
LoggingStep == KeypressStep \/ (BackspaceStep /\ Len(raw_input) > 0)

\* C16 as stated: the rt of every new log entry equals the clock reading at
\* the action minus last_action_time as it was before the action (rt is in
\* milliseconds, the readings in ticks).
C16_RtIsExactElapsed ==
    [][ LoggingStep =>
        Last(keystroke_log').rt * TicksPerMs = clock' - last_action_time ]_vars

\* C16 as amended: the rt of every new log entry is the clock reading at the
\* action minus last_action_time as it was before the action, rounded to the
\* nearest millisecond, and is non-negative; last_action_time is then that
\* reading; a step that logs nothing leaves last_action_time unchanged.
C16_RtIsRoundedElapsed ==
    [][ IF LoggingStep
        THEN /\ Last(keystroke_log').rt = MathRound(clock' - last_action_time)
             /\ Last(keystroke_log').rt >= 0
             /\ last_action_time' = clock'
        ELSE last_action_time' = last_action_time ]_vars

\* C16 witness: a keypress half a millisecond after the trial start and a
\* backspace logged with no time elapsed since that keypress
C16_Witness ==
    /\ Len(keystroke_log) = 2
    /\ keystroke_log[1].rt = 1
    /\ keystroke_log[2].action = "backspace"
    /\ keystroke_log[2].rt = 0
    /\ last_action_time = clock
    /\ clock > start_time

\* a composition artifact: the dead-key marker, or the key code "Equal"
IsArtifact(e) == e.type = "keydown" /\ (e.key = DeadKey \/ e.code = "Equal")

\* C17: a keydown that is a composition artifact changes neither raw_input,
\* display_input, keystroke_log, last_action_time, the field nor the submit
\* control; every other keydown of a single character is handled as a
\* keypress: the character is appended to raw_input and one entry is logged.
C17_OnlyArtifactsSuppressed ==
    [][ /\ IsArtifact(last_event') =>
            UNCHANGED <<raw_input, display_input, keystroke_log,
                        last_action_time, textbox_value, next_button_disabled>>
        /\ ( /\ last_event'.type = "keydown"
             /\ ~IsArtifact(last_event')
             /\ Len(last_event'.key) = 1 )
           => /\ raw_input' = raw_input \o last_event'.key
              /\ Len(keystroke_log') = Len(keystroke_log) + 1
              /\ Last(keystroke_log').typed_char = last_event'.key
      ]_vars

\* C17 witness: the key "=" with code "Equal" was pressed after text was typed
C17_Witness ==
    /\ last_event.type = "keydown"
    /\ last_event.code = "Equal"
    /\ last_event.key = <<"=">>
    /\ raw_input # <<>>
    /\ Len(keystroke_log) = 1

\* C18: after every handler the field holds display_input; an input event
\* that finds the field different from display_input resets it and changes
\* neither raw_input, display_input, keystroke_log nor last_action_time.
C18_FieldIsProjection ==
    [][ /\ textbox_value' = display_input'
        /\ last_event'.type = "input" =>
              UNCHANGED <<raw_input, display_input, keystroke_log,
                          last_action_time>> ]_vars

\* C18 witness: an input event found "z" in the field while display_input
\* held other, typed, text; the field holds display_input again
C18_Witness ==
    /\ last_event.type = "input"
    /\ last_event.value = <<"z">>
    /\ display_input # <<>>
    /\ display_input # last_event.value
    /\ textbox_value = display_input

RECURSIVE Undo(_, _)
\* the keypress entries of the first n entries of log that no backspace has
\* undone, oldest first: a keypress pushes, a backspace pops
Undo(log, n) ==
    IF n = 0 THEN <<>>
    ELSE LET stack == Undo(log, n - 1) IN
         IF log[n].action = "keypress" THEN Append(stack, log[n])
         ELSE SliceInit(stack)

RECURSIVE Concat(_, _)
\* the field f of the entries of stack, concatenated (mapped_char by its string)
Concat(stack, f) ==
    IF stack = <<>> THEN <<>>
    ELSE (IF f = "typed_char" THEN Head(stack).typed_char
          ELSE Head(stack).mapped_char.s) \o Concat(Tail(stack), f)

\* C19: every backspace entry holds the typed_char and mapped_char of the
\* latest keypress entry not yet undone, and replaying the log (push on
\* keypress, pop on backspace) gives raw_input and display_input.
C19_LogStackDiscipline ==
    /\ \A n \in 1..Len(keystroke_log) :
          keystroke_log[n].action = "backspace" =>
              LET stack == Undo(keystroke_log, n - 1) IN
              /\ stack # <<>>
              /\ keystroke_log[n].deleted_raw_char = Last(stack).typed_char
              /\ keystroke_log[n].deleted_display_char = Last(stack).mapped_char.s
    /\ raw_input =
          Concat(Undo(keystroke_log, Len(keystroke_log)), "typed_char")
    /\ display_input =
          Concat(Undo(keystroke_log, Len(keystroke_log)), "mapped_char")

TabEvent == [type |-> "keydown", key |-> TabKey, code |-> "Tab"]

\* C20: a keydown whose key is neither a single character, Enter nor
\* Backspace changes neither raw_input, display_input, keystroke_log,
\* last_action_time nor the submit control; and with require_response false
\* the submit control is enabled in every state, so that a click with empty
\* display_input is handled and reports an empty response.
C20_OtherKeysAndOptionalResponse ==
    [][ /\ ( /\ last_event'.type = "keydown"
             /\ Len(last_event'.key) # 1
             /\ last_event'.key \notin {EnterKey, BackspaceKey} )
           => UNCHANGED <<raw_input, display_input, keystroke_log,
                          last_action_time, next_button_disabled>>
        /\ ~trial.require_response =>
              /\ ~next_button_disabled
              /\ ~next_button_disabled'
              /\ (display_input = <<>> /\ finish_calls < MaxSubmits) =>
                    ENABLED (\E now \in Readings : Click(now))
        /\ (last_event'.type = "click" /\ display_input = <<>>) =>
              last_event'.trial_data.response = <<>>
      ]_vars

\* C20 witness: require_response is false, nothing was typed, the trial was
\* submitted with an empty response and Tab was pressed afterwards
C20_Witness ==
    /\ ~trial.require_response
    /\ last_event = TabEvent
    /\ finish_calls = 1
    /\ keystroke_log = <<>>
    /\ display_input = <<>>

====
